---- MODULE Spec2Model ----
(***************************************************************************)
(* Solar microgrid dashboard (src/demo sih/deploy-streamlit.py).           *)
(*                                                                         *)
(* Quantities.  The program computes in floating point.  The model keeps   *)
(* every physical quantity (W, %, degC, W/m2) as an integer number of      *)
(* thousandths of its unit, so 30 % is 30000 and 1800 W is 1800000, and    *)
(* sin(2*pi*h/24) as the integer nearest to 1000 times its value.  The     *)
(* wall clock is an integer number of seconds.  Rounding in the last       *)
(* binary digit of a float is below the resolution of the model.           *)
(*                                                                         *)
(* Optional values.  Python's None is the empty tuple and a present value  *)
(* x is the one-element tuple <<x>>.                                       *)
(***************************************************************************)
EXTENDS Integers, Sequences, FiniteSets, TLC

VARIABLES
    \* st.session_state (lines 295-309)
    authenticated, operator, start_time, session_alerts, last_alert_times,
    predictive_enabled, load_predictions,
    \* the store of @st.cache_data for generate_historical_data (line 238)
    cached, energy_df, weather_df,
    \* the wall clock, as last read by datetime.now()
    now,
    \* the locals of the last script run of main_dashboard (lines 805-836)
    current_idx, energy_data, weather_data, alerts, predictions,
    \* the local of predict_load_management (line 389): the row labels of the window
    recent_data

vars == <<authenticated, operator, start_time, session_alerts, last_alert_times,
          predictive_enabled, load_predictions, cached, energy_df, weather_df,
          now, current_idx, energy_data, weather_data, alerts, predictions,
          recent_data>>

session == <<authenticated, operator, start_time, session_alerts, last_alert_times,
             predictive_enabled, load_predictions>>

cache == <<cached, energy_df, weather_df>>

locals == <<current_idx, energy_data, weather_data, alerts, predictions, recent_data>>

None == <<>>

Some(x) == <<x>>

Max(a, b) == IF a >= b THEN a ELSE b

Min(a, b) == IF a <= b THEN a ELSE b

\* np.clip(x, lo, hi)
clip(x, lo, hi) == Min(Max(x, lo), hi)

(***************************************************************************)
(* Bounds of the model.                                                    *)
(***************************************************************************)
\* the noise streams range over 0..MaxStream
MaxStream == 1

\* the clock is read again only while its last reading is at most MaxNow seconds
MaxNow == 130

\* a long idle period between two script runs, in seconds
LongIdle == 4993

\* a script run started by a button soon after the previous one, in seconds
ShortWait == 1

\* number of rows of the series handed to the predictor on its own
TestLen == 27

\* the clock reading at session initialisation, in seconds
SessionStart == 7

(***************************************************************************)
(* Program constants.                                                      *)
(***************************************************************************)
\* np.arange(1000): the length of the series
N == 1000

\* seconds of wall clock per series step (line 806), also time.sleep(5)
StepSeconds == 5

\* the predictor looks back 24 rows (line 389)
Lookback == 24

(***************************************************************************)
(* generate_historical_data                                                *)
(***************************************************************************)
SinTable ==
    <<0, 259, 500, 707, 866, 966, 1000, 966, 866, 707, 500, 259,
      0, -259, -500, -707, -866, -966, -1000, -966, -866, -707, -500, -259>>

\* 1000 * np.sin(2 * np.pi * hours / 24), to the nearest integer
sin1000(h) == SinTable[(h % 24) + 1]

\* Standard-normal draws.  numpy's generator is not reproduced bit for bit: a
\* draw is one of a few representative z-scores per call, and the stream
\* number and the row decide which, so that over the streams every
\* combination of the z-scores of the energy calls meets every hour of day.
\* Calls in program order: 1 generation, 2 storage_soc, 3 load, 4 efficiency,
\* 5 temperature, 6 irradiance.
ZScores ==
    << <<0, -3, -20>>, <<0, -5, -12, 3>>, <<0, -15>>, <<0, 6, -30>>,
       <<0, 1, -3>>, <<1, -30>> >>

ZStride == <<1, 3, 12, 24, 1, 3>>

zscore(stream, call, i) ==
    LET c == stream * 41 + (i \div 24)
    IN  ZScores[call][((c \div ZStride[call]) % Len(ZScores[call])) + 1]

\* np.random.normal(0, sigma, 1000)[i] of the call-th call, in thousandths
normal(stream, call, sigma, i) == sigma * 1000 * zscore(stream, call, i)

\* The columns are computed element by element, as numpy does; each operator
\* below is element i of the array of the same name.

\* generation with the night mask of lines 252-253 left out
generation_unmasked(stream, i) ==
    Max(0, 1800000 + 600 * sin1000(i) + normal(stream, 1, 100, i))

\* lines 247-248, then the night mask of lines 252-253
generation(stream, i) ==
    LET night_mask == (i % 24) >= 18
    IN  IF night_mask THEN 0
        ELSE Max(0, 1800000 + 600 * sin1000(i) + normal(stream, 1, 100, i))

\* line 255
storage_soc(stream, i) == 70000 + 20 * sin1000(i) + normal(stream, 2, 5, i)

\* line 256
load(stream, i) == 1500000 + 400 * sin1000(i) + normal(stream, 3, 80, i)

\* line 257
efficiency(stream, i) == 85000 + 10 * sin1000(i) + normal(stream, 4, 3, i)

\* lines 260-261
grid_power(stream, i) ==
    IF generation(stream, i) = 0 THEN load(stream, i)
    ELSE Max(0, load(stream, i) - generation(stream, i) - storage_soc(stream, i) * 10)

\* health_score with a grid-dependency penalty of 20 instead of 10
health_score_grid_20(stream, i) ==
    LET h0 == 100000
        h1 == IF storage_soc(stream, i) < 30000 THEN h0 - 30000 ELSE h0
        h2 == IF efficiency(stream, i) < 75000 THEN h1 - 20000 ELSE h1
        h3 == IF generation(stream, i) = 0 THEN h2 - 20000 ELSE h2
    IN  clip(h3, 0, 100000)

\* lines 264-268
health_score(stream, i) ==
    LET h0 == 100000
        h1 == IF storage_soc(stream, i) < 30000 THEN h0 - 30000 ELSE h0
        h2 == IF efficiency(stream, i) < 75000 THEN h1 - 20000 ELSE h1
        h3 == IF generation(stream, i) = 0 THEN h2 - 10000 ELSE h2
    IN  clip(h3, 0, 100000)

\* line 271
temperature(stream, i) == 25000 + 15 * sin1000(i) + normal(stream, 5, 2, i)

\* lines 272-273
irradiance(stream, i) == Max(0, 1000 * sin1000(i) + normal(stream, 6, 50, i))

\* energy_row with the clipping of lines 279-281 left out
energy_row_unclipped(stream, i) ==
    [generation_watt     |-> generation(stream, i),
     storage_soc_percent |-> storage_soc(stream, i),
     load_watt           |-> load(stream, i),
     efficiency_percent  |-> efficiency(stream, i),
     grid_power_watt     |-> grid_power(stream, i),
     health_score        |-> health_score(stream, i),
     is_grid_mode        |-> (generation(stream, i) = 0)]

\* lines 276-285; the timestamp column is the row number times 5 minutes
energy_row(stream, i) ==
    [generation_watt     |-> generation(stream, i),
     storage_soc_percent |-> clip(storage_soc(stream, i), 0, 100000),
     load_watt           |-> Max(0, load(stream, i)),
     efficiency_percent  |-> clip(efficiency(stream, i), 0, 100000),
     grid_power_watt     |-> grid_power(stream, i),
     health_score        |-> health_score(stream, i),
     is_grid_mode        |-> (generation(stream, i) = 0)]

\* lines 287-291
weather_row(stream, i) ==
    [temp_c         |-> temperature(stream, i),
     irradiance_wm2 |-> irradiance(stream, i)]

\* the pair of frames returned at line 293, rows labelled 0 .. N - 1
generate_historical_data(stream) ==
    << [i \in 0 .. N - 1 |-> energy_row(stream, i)],
       [i \in 0 .. N - 1 |-> weather_row(stream, i)] >>

\* verify_otp accepting whatever is entered
verify_otp_any(phone_number, provided_otp) == TRUE

(***************************************************************************)
(* Authentication                                                          *)
(***************************************************************************)
generate_otp == "123456"

verify_otp(phone_number, provided_otp) == provided_otp = generate_otp

\* st.session_state never holds 'operators', so the id is always 0 + 1
create_operator(phone_number) ==
    [id |-> 1, phone_number |-> phone_number, name |-> "Operator 1",
     email |-> "operator1@microgrid.com", role |-> "operator"]

\* '{:.0f}'.format(x): x in thousandths, to the nearest integer, ties to even
format_0f(x) ==
    LET q == x \div 1000
        r == x % 1000
    IN  IF r > 500 \/ (r = 500 /\ q % 2 = 1) THEN q + 1 ELSE q

(***************************************************************************)
(* predict_load_management                                                 *)
(***************************************************************************)
\* The rows a positional slice df.iloc[start:stop] selects from n rows, as the
\* ascending sequence of their labels: a negative bound counts from the end
\* and both bounds are clamped to the frame.
iloc_slice(n, start, stop) ==
    LET norm(x) == IF x < 0 THEN Max(0, x + n) ELSE Min(x, n)
        lo == norm(start)
        hi == norm(stop)
    IN  [k \in 1 .. Max(0, hi - lo) |-> lo + k - 1]

\* Whether df.iloc[idx] selects a row of n rows (IndexError otherwise)
iloc_ok(n, idx) == -n <= idx /\ idx < n

\* The label of the row df.iloc[idx] selects
iloc_row(n, idx) == IF idx < 0 THEN idx + n ELSE idx

RECURSIVE column_sum(_, _, _, _)
\* recent_data[column].sum(), over the first k labels of the window
column_sum(df, labels, column, k) ==
    IF k = 0 THEN 0
    ELSE column_sum(df, labels, column, k - 1) + df[labels[k]][column]

\* len(df); the rows of a frame are labelled 0 .. len(df) - 1
nrows(df) == Cardinality(DOMAIN df)

\* window with the max(0, ...) of line 389 left out
window_unclamped(df, current_idx_) ==
    iloc_slice(nrows(df), current_idx_ - Lookback, current_idx_ + 1)

\* line 389
window(df, current_idx_) ==
    iloc_slice(nrows(df), Max(0, current_idx_ - Lookback), current_idx_ + 1)

\* energy_deficit with the max(0, ...) of line 401 left out
energy_deficit_unfloored(next_6h_load, next_6h_generation, current_soc, den) ==
    next_6h_load - next_6h_generation - current_soc * 10 * den

\* line 401, on numerators over the common denominator den > 0
energy_deficit(next_6h_load, next_6h_generation, current_soc, den) ==
    Max(0, next_6h_load - next_6h_generation - current_soc * 10 * den)

\* a recommendation: the text and the values formatted into it
recommendation(text, args) == [text |-> text, args |-> args]

\* recommendations with the second and third if of lines 410 and 414
\* written as elif
recommendations_first_match(deficit, den, current_soc, cur) ==
    IF den > 0 /\ deficit > 500000 * den
    THEN <<recommendation("Consider reducing non-essential loads", <<>>),
           recommendation("Activate energy-saving mode", <<>>),
           recommendation("Schedule heavy loads during peak generation", <<>>)>>
    ELSE IF current_soc < 40000
    THEN <<recommendation("Switch to grid power to preserve battery", <<>>),
           recommendation("Reduce current load by 20%", <<>>)>>
    ELSE IF cur.is_grid_mode
    THEN <<recommendation("Solar generation will resume at 6 AM", <<>>),
           recommendation("Current grid consumption: {:.0f}W",
                          <<format_0f(cur.grid_power_watt)>>)>>
    ELSE <<>>

\* lines 403-416: the list built from the deficit (a numerator over den;
\* den = 0 is NaN, which is not > 500), the current soc and the current row
recommendations(deficit, den, current_soc, cur) ==
    LET rec1 == IF den > 0 /\ deficit > 500000 * den
                THEN <<recommendation("Consider reducing non-essential loads", <<>>),
                       recommendation("Activate energy-saving mode", <<>>),
                       recommendation("Schedule heavy loads during peak generation", <<>>)>>
                ELSE <<>>
        rec2 == IF current_soc < 40000
                THEN <<recommendation("Switch to grid power to preserve battery", <<>>),
                       recommendation("Reduce current load by 20%", <<>>)>>
                ELSE <<>>
        rec3 == IF cur.is_grid_mode
                THEN <<recommendation("Solar generation will resume at 6 AM", <<>>),
                       recommendation("Current grid consumption: {:.0f}W",
                                      <<format_0f(cur.grid_power_watt)>>)>>
                ELSE <<>>
    IN  rec1 \o rec2 \o rec3

\* The dict the function returns, or the exception it raises.  A number of the
\* result is the fraction num/den of thousandths, with den = 10 * (rows of the
\* window), so that mean * 0.3 and mean * 1.1 are exact; den = 0 is NaN, the
\* mean of an empty window.  Python's max(0, NaN) is 0.
predict_load_management(df, current_idx_) ==
    LET n == nrows(df)
        labels == window(df, current_idx_)
        len == Len(labels)
        den == 10 * len
        \* lines 392-393 and 397-398
        next_6h_generation == 3 * column_sum(df, labels, "generation_watt", len)
        next_6h_load == 11 * column_sum(df, labels, "load_watt", len)
    IN  IF ~iloc_ok(n, current_idx_) THEN [raised |-> "IndexError"]
        ELSE
          LET cur == df[iloc_row(n, current_idx_)]
              current_soc == cur.storage_soc_percent
              \* line 401
              deficit ==
                  IF len = 0 THEN 0
                  ELSE energy_deficit(next_6h_load, next_6h_generation, current_soc, den)
          IN  [raised             |-> "",
               energy_deficit     |-> [num |-> deficit, den |-> IF len = 0 THEN 1 ELSE den],
               recommendations    |-> recommendations(deficit, den, current_soc, cur),
               next_6h_generation |-> [num |-> next_6h_generation, den |-> den],
               next_6h_load       |-> [num |-> next_6h_load, den |-> den],
               grid_mode          |-> cur.is_grid_mode]

(***************************************************************************)
(* check_alerts                                                            *)
(***************************************************************************)
alert(type, message, args, current_time) ==
    [type |-> type, message |-> message, args |-> args, timestamp |-> current_time]

\* check_alerts with the success alert appended without the test of line 525
check_alerts_always_healthy(energy_data_, weather_data_, current_time) ==
    LET battery_alerts ==
            IF energy_data_.storage_soc_percent < 30000
            THEN <<alert("critical", "CRITICAL: Low battery storage", <<>>, current_time)>>
            ELSE IF energy_data_.storage_soc_percent < 50000
            THEN <<alert("warning", "Battery storage below 50%", <<>>, current_time)>>
            ELSE <<>>
        temperature_alerts ==
            IF weather_data_.temp_c > 40000
            THEN <<alert("critical", "CRITICAL: High panel temperature", <<>>, current_time)>>
            ELSE IF weather_data_.temp_c > 35000
            THEN <<alert("warning", "Panel temperature rising", <<>>, current_time)>>
            ELSE <<>>
        generation_alerts ==
            IF energy_data_.generation_watt < 1000000 /\ energy_data_.generation_watt > 0
            THEN <<alert("warning", "Low power generation", <<>>, current_time)>>
            ELSE <<>>
        grid_alerts ==
            IF energy_data_.is_grid_mode
            THEN <<alert("info", "Grid mode active. Grid power: {:.0f}W",
                         <<format_0f(energy_data_.grid_power_watt)>>, current_time)>>
            ELSE <<>>
        efficiency_alerts ==
            IF energy_data_.efficiency_percent < 75000
            THEN <<alert("warning", "System efficiency below optimal", <<>>, current_time)>>
            ELSE <<>>
        health_alerts ==
            IF energy_data_.health_score < 70000
            THEN <<alert("warning", "System health below optimal", <<>>, current_time)>>
            ELSE <<>>
        fired == battery_alerts \o temperature_alerts \o generation_alerts \o grid_alerts
                   \o efficiency_alerts \o health_alerts
    IN  fired \o <<alert("success", "All systems healthy", <<>>, current_time)>>

\* check_alerts with the elif of line 471 written as a second if
check_alerts_if_if(energy_data_, weather_data_, current_time) ==
    LET battery_alerts ==
            (IF energy_data_.storage_soc_percent < 30000
             THEN <<alert("critical", "CRITICAL: Low battery storage", <<>>, current_time)>>
             ELSE <<>>)
            \o (IF energy_data_.storage_soc_percent < 50000
                THEN <<alert("warning", "Battery storage below 50%", <<>>, current_time)>>
                ELSE <<>>)
        temperature_alerts ==
            IF weather_data_.temp_c > 40000
            THEN <<alert("critical", "CRITICAL: High panel temperature", <<>>, current_time)>>
            ELSE IF weather_data_.temp_c > 35000
            THEN <<alert("warning", "Panel temperature rising", <<>>, current_time)>>
            ELSE <<>>
        generation_alerts ==
            IF energy_data_.generation_watt < 1000000 /\ energy_data_.generation_watt > 0
            THEN <<alert("warning", "Low power generation", <<>>, current_time)>>
            ELSE <<>>
        grid_alerts ==
            IF energy_data_.is_grid_mode
            THEN <<alert("info", "Grid mode active. Grid power: {:.0f}W",
                         <<format_0f(energy_data_.grid_power_watt)>>, current_time)>>
            ELSE <<>>
        efficiency_alerts ==
            IF energy_data_.efficiency_percent < 75000
            THEN <<alert("warning", "System efficiency below optimal", <<>>, current_time)>>
            ELSE <<>>
        health_alerts ==
            IF energy_data_.health_score < 70000
            THEN <<alert("warning", "System health below optimal", <<>>, current_time)>>
            ELSE <<>>
        fired == battery_alerts \o temperature_alerts \o generation_alerts \o grid_alerts
                   \o efficiency_alerts \o health_alerts
    IN  IF fired = <<>>
        THEN <<alert("success", "All systems healthy", <<>>, current_time)>>
        ELSE fired

\* check_alerts with the lower test of line 493 (generation > 0) left out
check_alerts_zero_generation(energy_data_, weather_data_, current_time) ==
    LET battery_alerts ==
            IF energy_data_.storage_soc_percent < 30000
            THEN <<alert("critical", "CRITICAL: Low battery storage", <<>>, current_time)>>
            ELSE IF energy_data_.storage_soc_percent < 50000
            THEN <<alert("warning", "Battery storage below 50%", <<>>, current_time)>>
            ELSE <<>>
        temperature_alerts ==
            IF weather_data_.temp_c > 40000
            THEN <<alert("critical", "CRITICAL: High panel temperature", <<>>, current_time)>>
            ELSE IF weather_data_.temp_c > 35000
            THEN <<alert("warning", "Panel temperature rising", <<>>, current_time)>>
            ELSE <<>>
        generation_alerts ==
            IF energy_data_.generation_watt < 1000000
            THEN <<alert("warning", "Low power generation", <<>>, current_time)>>
            ELSE <<>>
        grid_alerts ==
            IF energy_data_.is_grid_mode
            THEN <<alert("info", "Grid mode active. Grid power: {:.0f}W",
                         <<format_0f(energy_data_.grid_power_watt)>>, current_time)>>
            ELSE <<>>
        efficiency_alerts ==
            IF energy_data_.efficiency_percent < 75000
            THEN <<alert("warning", "System efficiency below optimal", <<>>, current_time)>>
            ELSE <<>>
        health_alerts ==
            IF energy_data_.health_score < 70000
            THEN <<alert("warning", "System health below optimal", <<>>, current_time)>>
            ELSE <<>>
        fired == battery_alerts \o temperature_alerts \o generation_alerts \o grid_alerts
                   \o efficiency_alerts \o health_alerts
    IN  IF fired = <<>>
        THEN <<alert("success", "All systems healthy", <<>>, current_time)>>
        ELSE fired

\* lines 459-532
check_alerts(energy_data_, weather_data_, current_time) ==
    LET battery_alerts ==
            IF energy_data_.storage_soc_percent < 30000
            THEN <<alert("critical", "CRITICAL: Low battery storage", <<>>, current_time)>>
            ELSE IF energy_data_.storage_soc_percent < 50000
            THEN <<alert("warning", "Battery storage below 50%", <<>>, current_time)>>
            ELSE <<>>
        temperature_alerts ==
            IF weather_data_.temp_c > 40000
            THEN <<alert("critical", "CRITICAL: High panel temperature", <<>>, current_time)>>
            ELSE IF weather_data_.temp_c > 35000
            THEN <<alert("warning", "Panel temperature rising", <<>>, current_time)>>
            ELSE <<>>
        generation_alerts ==
            IF energy_data_.generation_watt < 1000000 /\ energy_data_.generation_watt > 0
            THEN <<alert("warning", "Low power generation", <<>>, current_time)>>
            ELSE <<>>
        grid_alerts ==
            IF energy_data_.is_grid_mode
            THEN <<alert("info", "Grid mode active. Grid power: {:.0f}W",
                         <<format_0f(energy_data_.grid_power_watt)>>, current_time)>>
            ELSE <<>>
        efficiency_alerts ==
            IF energy_data_.efficiency_percent < 75000
            THEN <<alert("warning", "System efficiency below optimal", <<>>, current_time)>>
            ELSE <<>>
        health_alerts ==
            IF energy_data_.health_score < 70000
            THEN <<alert("warning", "System health below optimal", <<>>, current_time)>>
            ELSE <<>>
        fired == battery_alerts \o temperature_alerts \o generation_alerts \o grid_alerts
                   \o efficiency_alerts \o health_alerts
    IN  IF fired = <<>>
        THEN <<alert("success", "All systems healthy", <<>>, current_time)>>
        ELSE fired

(***************************************************************************)
(* The session: one action per script run of main()                        *)
(***************************************************************************)
Phones == {"", "9876543210"}

Otps == {"", "123456", "000000"}

\* the time that passes between two readings of the clock
Elapsed == {ShortWait, StepSeconds, LongIdle}

\* lines 295-309; nothing is cached and no script has run
Init ==
    /\ authenticated = FALSE
    /\ operator = None
    /\ start_time = SessionStart
    /\ session_alerts = <<>>
    /\ last_alert_times = <<>>
    /\ predictive_enabled = FALSE
    /\ load_predictions = <<>>
    /\ cached = FALSE
    /\ energy_df = <<>>
    /\ weather_df = <<>>
    /\ now = SessionStart
    /\ current_idx = None
    /\ energy_data = None
    /\ weather_data = None
    /\ alerts = None
    /\ predictions = None
    /\ recent_data = None

\* the locals of main_dashboard do not outlive a script run
NoLocals ==
    /\ current_idx' = None
    /\ energy_data' = None
    /\ weather_data' = None
    /\ alerts' = None
    /\ predictions' = None
    /\ recent_data' = None

\* lines 352-357: the Send OTP button changes no state
SendOTP ==
    /\ ~authenticated
    /\ NoLocals
    /\ UNCHANGED <<session, cache, now>>

\* lines 360-370: the Login button
Login(phone_number, otp) ==
    /\ ~authenticated
    /\ IF phone_number # "" /\ otp # "" /\ verify_otp(phone_number, otp)
       THEN /\ authenticated' = TRUE
            /\ operator' = Some(create_operator(phone_number))
       ELSE UNCHANGED <<authenticated, operator>>
    /\ NoLocals
    /\ UNCHANGED <<start_time, session_alerts, last_alert_times, predictive_enabled,
                   load_predictions, cache, now>>

\* lines 791-792: the Refresh button reruns the script before any data is read
Refresh ==
    /\ authenticated
    /\ NoLocals
    /\ UNCHANGED <<session, cache, now>>

\* lines 794-797: the Logout button
Logout ==
    /\ authenticated
    /\ authenticated' = FALSE
    /\ operator' = None
    /\ NoLocals
    /\ UNCHANGED <<start_time, session_alerts, last_alert_times, predictive_enabled,
                   load_predictions, cache, now>>

\* index_of counting from the epoch instead of the session start
index_of_epoch(t, start, n) == (t \div StepSeconds) % n

\* line 806
index_of(t, start, n) == ((t - start) \div StepSeconds) % n

\* ReadData without @st.cache_data and without the seed: every script run
\* generates the series again, from whatever noise it draws
ReadData_uncached(stream, dt) ==
    /\ now <= MaxNow
    /\ now' = now + dt
    /\ LET dfs == generate_historical_data(stream)
           idx == index_of(now', start_time, nrows(dfs[1]))
           current_energy == dfs[1][idx]
           current_weather == dfs[2][idx]
       IN  /\ cached' = TRUE
           /\ energy_df' = dfs[1]
           /\ weather_df' = dfs[2]
           /\ current_idx' = Some(idx)
           /\ energy_data' = Some(current_energy)
           /\ weather_data' = Some(current_weather)
           /\ alerts' = Some(check_alerts(current_energy, current_weather, now'))

\* lines 805-831: the clock is read, the series is taken from the cache (or
\* generated from some noise stream and cached), the current row is selected
\* and the alerts are evaluated
ReadData(stream, dt) ==
    /\ now <= MaxNow
    /\ now' = now + dt
    /\ LET dfs == IF cached THEN <<energy_df, weather_df>>
                  ELSE generate_historical_data(stream)
           idx == index_of(now', start_time, nrows(dfs[1]))
           current_energy == dfs[1][idx]
           current_weather == dfs[2][idx]
       IN  /\ cached' = TRUE
           /\ energy_df' = dfs[1]
           /\ weather_df' = dfs[2]
           /\ current_idx' = Some(idx)
           /\ energy_data' = Some(current_energy)
           /\ weather_data' = Some(current_weather)
           /\ alerts' = Some(check_alerts(current_energy, current_weather, now'))

\* Dashboard with a cooldown: an alert whose message is in last_alert_times
\* is dropped, and the messages shown are recorded there
Dashboard_with_cooldown(stream, dt) ==
    /\ authenticated
    /\ now <= MaxNow
    /\ now' = now + dt
    /\ LET dfs == IF cached THEN <<energy_df, weather_df>>
                  ELSE generate_historical_data(stream)
           idx == index_of(now', start_time, nrows(dfs[1]))
           current_energy == dfs[1][idx]
           current_weather == dfs[2][idx]
           fired == check_alerts(current_energy, current_weather, now')
           shown == SelectSeq(fired, LAMBDA a : a.message \notin DOMAIN last_alert_times)
       IN  /\ cached' = TRUE
           /\ energy_df' = dfs[1]
           /\ weather_df' = dfs[2]
           /\ current_idx' = Some(idx)
           /\ energy_data' = Some(current_energy)
           /\ weather_data' = Some(current_weather)
           /\ alerts' = Some(shown)
           /\ last_alert_times' =
                  [m \in DOMAIN last_alert_times \cup {shown[k].message : k \in 1 .. Len(shown)} |->
                      IF m \in DOMAIN last_alert_times THEN last_alert_times[m] ELSE now']
           /\ IF predictive_enabled
              THEN /\ predictions' = Some(predict_load_management(dfs[1], idx))
                   /\ recent_data' = Some(window(dfs[1], idx))
              ELSE /\ predictions' = None
                   /\ recent_data' = None
    /\ UNCHANGED <<authenticated, operator, start_time, session_alerts,
                   predictive_enabled, load_predictions>>

\* Dashboard without lines 835-837: no script run computes a prediction
Dashboard_never_predicts(stream, dt) ==
    /\ authenticated
    /\ ReadData(stream, dt)
    /\ predictions' = None
    /\ recent_data' = None
    /\ UNCHANGED session

\* lines 770-882 with no button pressed: a whole script run, which ends in
\* time.sleep(5) and st.rerun()
Dashboard(stream, dt) ==
    /\ authenticated
    /\ ReadData(stream, dt)
    /\ IF predictive_enabled
       THEN /\ predictions' = Some(predict_load_management(energy_df', current_idx'[1]))
            /\ recent_data' = Some(window(energy_df', current_idx'[1]))
       ELSE /\ predictions' = None
            /\ recent_data' = None
    /\ UNCHANGED session

\* lines 844-846: the Enable AI Predictions button, shown while predictions
\* are off; the script reruns right after setting the flag
EnablePredictions(stream, dt) ==
    /\ authenticated
    /\ ~predictive_enabled
    /\ ReadData(stream, dt)
    /\ predictive_enabled' = TRUE
    /\ predictions' = None
    /\ recent_data' = None
    /\ UNCHANGED <<authenticated, operator, start_time, session_alerts,
                   last_alert_times, load_predictions>>

Next ==
    \/ SendOTP
    \/ \E p \in Phones, o \in Otps : Login(p, o)
    \/ Refresh
    \/ Logout
    \/ \E s \in 0 .. MaxStream, dt \in Elapsed : Dashboard(s, dt)
    \/ \E s \in 0 .. MaxStream, dt \in Elapsed : EnablePredictions(s, dt)

Spec == Init /\ [][Next]_vars

(***************************************************************************)
(* check_alerts on its own: every combination of the sample values below   *)
(***************************************************************************)
EnergySamples ==
    [generation_watt     : {0, 1, 999999, 1000000, 1500000},
     storage_soc_percent : {20000, 29999, 30000, 49999, 50000, 90000},
     load_watt           : {1500000},
     efficiency_percent  : {74999, 75000, 90000},
     grid_power_watt     : {0, 1100500},
     health_score        : {69999, 70000, 95000},
     is_grid_mode        : BOOLEAN]

WeatherSamples ==
    [temp_c         : {20000, 35000, 35001, 40000, 40001},
     irradiance_wm2 : {0}]

\* a fresh session whose script has not run
FreshSession ==
    /\ authenticated = FALSE
    /\ operator = None
    /\ start_time = SessionStart
    /\ session_alerts = <<>>
    /\ last_alert_times = <<>>
    /\ predictive_enabled = FALSE
    /\ load_predictions = <<>>
    /\ now = SessionStart

InitAlerts ==
    /\ FreshSession
    /\ cached = FALSE
    /\ energy_df = <<>>
    /\ weather_df = <<>>
    /\ current_idx = None
    /\ energy_data \in {Some(e) : e \in EnergySamples}
    /\ weather_data \in {Some(w) : w \in WeatherSamples}
    /\ alerts = None
    /\ predictions = None
    /\ recent_data = None

\* line 831: alerts = check_alerts(energy_data, weather_data)
EvaluateAlerts ==
    /\ alerts = None
    /\ alerts' = Some(check_alerts(energy_data[1], weather_data[1], now))
    /\ UNCHANGED <<session, cache, now, current_idx, energy_data, weather_data,
                   predictions, recent_data>>

NextAlerts == EvaluateAlerts

SpecAlerts == InitAlerts /\ [][NextAlerts]_vars

(***************************************************************************)
(* predict_load_management on its own: frames of TestLen rows that hold    *)
(* one row value up to a split and another after it, and indexes inside    *)
(* and outside the frame                                                   *)
(***************************************************************************)
test_row(load_watt, generation_watt, storage_soc_percent) ==
    [generation_watt     |-> generation_watt,
     storage_soc_percent |-> storage_soc_percent,
     load_watt           |-> load_watt,
     efficiency_percent  |-> 90000,
     grid_power_watt     |-> IF generation_watt = 0 THEN load_watt
                             ELSE Max(0, load_watt - generation_watt
                                         - storage_soc_percent * 10),
     health_score        |-> 100000,
     is_grid_mode        |-> (generation_watt = 0)]

TestRows ==
    {test_row(l, g, c) : l \in {1000000, 1600000}, g \in {0, 1500000},
                         c \in {30000, 50000, 60000, 90000}}

TestFrames ==
    {[i \in 0 .. TestLen - 1 |-> IF i < split THEN a ELSE b] :
        a \in TestRows, b \in TestRows, split \in 0 .. TestLen}

TestIndexes == {-TestLen - 1, -TestLen, -2, -1} \cup (0 .. TestLen + 1)

InitPredict ==
    /\ FreshSession
    /\ cached = TRUE
    /\ energy_df \in TestFrames
    /\ weather_df = <<>>
    /\ current_idx = None
    /\ energy_data = None
    /\ weather_data = None
    /\ alerts = None
    /\ predictions = None
    /\ recent_data = None

\* line 836: predictions = predict_load_management(energy_df, current_idx)
Predict(idx) ==
    /\ predictions = None
    /\ current_idx' = Some(idx)
    /\ recent_data' = Some(window(energy_df, idx))
    /\ predictions' = Some(predict_load_management(energy_df, idx))
    /\ UNCHANGED <<session, cache, now, energy_data, weather_data, alerts>>

NextPredict == \E idx \in TestIndexes : Predict(idx)

SpecPredict == InitPredict /\ [][NextPredict]_vars

(***************************************************************************)
(* Properties of the generated series (specification Spec)                 *)
(***************************************************************************)
\* the rows of the cached series
Rows == 0 .. N - 1

\* C1: in every row 0..999 of the generated series, whatever the noise,
\* 0 <= storage_soc_percent <= 100, 0 <= efficiency_percent <= 100,
\* 0 <= health_score <= 100, generation_watt >= 0, load_watt >= 0 and
\* irradiance_wm2 >= 0.
C1_PublishedRanges ==
    cached =>
        /\ DOMAIN energy_df = Rows
        /\ DOMAIN weather_df = Rows
        /\ \A i \in Rows :
            /\ 0 <= energy_df[i].storage_soc_percent
            /\ energy_df[i].storage_soc_percent <= 100000
            /\ 0 <= energy_df[i].efficiency_percent
            /\ energy_df[i].efficiency_percent <= 100000
            /\ 0 <= energy_df[i].health_score
            /\ energy_df[i].health_score <= 100000
            /\ energy_df[i].generation_watt >= 0
            /\ energy_df[i].load_watt >= 0
            /\ weather_df[i].irradiance_wm2 >= 0

\* a cached series in which every clamp has acted on some row
C1_Witness ==
    /\ cached
    /\ \E i \in Rows : energy_df[i].storage_soc_percent = 0
    /\ \E i \in Rows : energy_df[i].storage_soc_percent = 100000
    /\ \E i \in Rows : energy_df[i].efficiency_percent = 0
    /\ \E i \in Rows : energy_df[i].efficiency_percent = 100000
    /\ \E i \in Rows : energy_df[i].load_watt = 0
    /\ \E i \in Rows : i % 24 < 18 /\ energy_df[i].generation_watt = 0
    /\ \E i \in Rows : weather_df[i].irradiance_wm2 = 0

C3_NightAndGridMode ==
    cached =>
        \A i \in Rows :
            /\ (i % 24) >= 18 =>
                   energy_df[i].generation_watt = 0 /\ energy_df[i].is_grid_mode
            /\ energy_df[i].is_grid_mode <=> (energy_df[i].generation_watt = 0)

\* a cached series with night rows, a day row in grid mode and a day row
\* that generates
C3_Witness ==
    /\ cached
    /\ \E i \in Rows : (i % 24) >= 18 /\ energy_df[i].is_grid_mode
    /\ \E i \in Rows : (i % 24) < 18 /\ energy_df[i].is_grid_mode
    /\ \E i \in Rows : (i % 24) < 18 /\ energy_df[i].generation_watt > 0
                       /\ ~energy_df[i].is_grid_mode

C5_IndexFromClock ==
    /\ start_time = SessionStart
    /\ current_idx # None =>
          /\ current_idx[1] \in 0 .. N - 1
          /\ \E k \in 0 .. 2 * N :
                /\ start_time + k * 5 <= now
                /\ now < start_time + (k + 1) * 5
                /\ current_idx[1] = k % N

\* a script run after the series has been played through once: row 0 again
C5_Witness ==
    /\ current_idx = Some(0)
    /\ now > start_time + 5 * N

(***************************************************************************)
(* Properties of check_alerts (specification SpecAlerts)                   *)
(***************************************************************************)
\* the conditions of the six rules, read off the sample
BatteryCritical(e) == e.storage_soc_percent < 30000

BatteryWarning(e) == 30000 <= e.storage_soc_percent /\ e.storage_soc_percent < 50000

TemperatureCritical(w) == w.temp_c > 40000

TemperatureWarning(w) == 35000 < w.temp_c /\ w.temp_c <= 40000

LowGeneration(e) == 0 < e.generation_watt /\ e.generation_watt < 1000000

LowEfficiency(e) == e.efficiency_percent < 75000

LowHealth(e) == e.health_score < 70000

AnyRule(e, w) ==
    \/ BatteryCritical(e) \/ BatteryWarning(e)
    \/ TemperatureCritical(w) \/ TemperatureWarning(w)
    \/ LowGeneration(e) \/ e.is_grid_mode \/ LowEfficiency(e) \/ LowHealth(e)

\* how many alerts of the list carry the message
Count(list, message) == Cardinality({k \in 1 .. Len(list) : list[k].message = message})

\* C6: check_alerts returns a non-empty list; it holds the success alert
\* exactly when none of the six rules fired, and then nothing else.
C6_SuccessOnlyWhenNothingFired ==
    alerts # None =>
        LET list == alerts[1]
            success == \E k \in 1 .. Len(list) : list[k].type = "success"
        IN  /\ Len(list) >= 1
            /\ success <=> ~AnyRule(energy_data[1], weather_data[1])
            /\ success => Len(list) = 1

\* the healthy sample (soc 90, temp 20, generation 1500, efficiency 90,
\* health 95, not in grid mode) evaluated: exactly one success alert
C6_Witness ==
    /\ alerts # None
    /\ energy_data[1].storage_soc_percent = 90000
    /\ energy_data[1].generation_watt = 1500000
    /\ energy_data[1].efficiency_percent = 90000
    /\ energy_data[1].health_score = 95000
    /\ ~energy_data[1].is_grid_mode
    /\ weather_data[1].temp_c = 20000
    /\ Len(alerts[1]) = 1
    /\ alerts[1][1].type = "success"

\* C7: at most one battery alert and at most one temperature alert, the
\* critical one first: battery critical iff soc < 30, warning iff
\* 30 <= soc < 50; temperature critical iff temp > 40, warning iff
\* 35 < temp <= 40.
C7_OneBatteryOneTemperature ==
    alerts # None =>
        LET list == alerts[1]
            e == energy_data[1]
            w == weather_data[1]
            bc == Count(list, "CRITICAL: Low battery storage")
            bw == Count(list, "Battery storage below 50%")
            tc == Count(list, "CRITICAL: High panel temperature")
            tw == Count(list, "Panel temperature rising")
        IN  /\ bc + bw <= 1
            /\ tc + tw <= 1
            /\ bc = 1 <=> BatteryCritical(e)
            /\ bw = 1 <=> BatteryWarning(e)
            /\ tc = 1 <=> TemperatureCritical(w)
            /\ tw = 1 <=> TemperatureWarning(w)
            /\ \A k \in 1 .. Len(list) :
                  /\ list[k].message = "CRITICAL: Low battery storage"
                        => list[k].type = "critical"
                  /\ list[k].message = "Battery storage below 50%"
                        => list[k].type = "warning"
                  /\ list[k].message = "CRITICAL: High panel temperature"
                        => list[k].type = "critical"
                  /\ list[k].message = "Panel temperature rising"
                        => list[k].type = "warning"

\* the sample with soc 20 and everything else healthy evaluated: exactly one
\* alert, the critical battery alert
C7_Witness ==
    /\ alerts # None
    /\ energy_data[1].storage_soc_percent = 20000
    /\ energy_data[1].generation_watt = 1500000
    /\ energy_data[1].efficiency_percent = 90000
    /\ energy_data[1].health_score = 95000
    /\ ~energy_data[1].is_grid_mode
    /\ weather_data[1].temp_c = 20000
    /\ Len(alerts[1]) = 1
    /\ alerts[1][1].type = "critical"
    /\ alerts[1][1].message = "CRITICAL: Low battery storage"

\* the six categories in their fixed order, each with the alert it raises
\* and whether its condition holds
Categories(e, w) ==
    << [on |-> BatteryCritical(e) \/ BatteryWarning(e),
        type |-> IF BatteryCritical(e) THEN "critical" ELSE "warning",
        message |-> IF BatteryCritical(e) THEN "CRITICAL: Low battery storage"
                    ELSE "Battery storage below 50%"],
       [on |-> TemperatureCritical(w) \/ TemperatureWarning(w),
        type |-> IF TemperatureCritical(w) THEN "critical" ELSE "warning",
        message |-> IF TemperatureCritical(w) THEN "CRITICAL: High panel temperature"
                    ELSE "Panel temperature rising"],
       [on |-> LowGeneration(e), type |-> "warning", message |-> "Low power generation"],
       [on |-> e.is_grid_mode, type |-> "info",
        message |-> "Grid mode active. Grid power: {:.0f}W"],
       [on |-> LowEfficiency(e), type |-> "warning",
        message |-> "System efficiency below optimal"],
       [on |-> LowHealth(e), type |-> "warning",
        message |-> "System health below optimal"] >>

IsOn(c) == c.on

\* C8: the list is exactly the alerts of the categories whose condition
\* holds, each decided on its own, in the order battery, temperature,
\* generation (0 < generation < 1000), grid mode, efficiency (< 75),
\* health (< 70).
C8_IndependentCategoriesInOrder ==
    alerts # None =>
        LET list == alerts[1]
            due == SelectSeq(Categories(energy_data[1], weather_data[1]), IsOn)
        IN  due # <<>> =>
              /\ Len(list) = Len(due)
              /\ \A k \in 1 .. Len(due) :
                    /\ list[k].type = due[k].type
                    /\ list[k].message = due[k].message

\* all six categories fire in one evaluation; and generation exactly 0
\* raises no generation alert
C8_Witness ==
    /\ alerts # None
    /\ Len(alerts[1]) = 6
    /\ alerts[1][3].message = "Low power generation"

\* an evaluation at generation 0 in grid mode: the grid alert, no generation alert
C8_WitnessZeroGeneration ==
    /\ alerts # None
    /\ energy_data[1].generation_watt = 0
    /\ energy_data[1].is_grid_mode
    /\ Count(alerts[1], "Low power generation") = 0
    /\ Count(alerts[1], "Grid mode active. Grid power: {:.0f}W") = 1

(***************************************************************************)
(* Properties of predict_load_management (specification SpecPredict)       *)
(***************************************************************************)
\* the call has returned or raised for an index inside the frame
PredictedInside ==
    /\ predictions # None
    /\ current_idx[1] \in 0 .. nrows(energy_df) - 1

\* C9: for a current index inside the frame the window is exactly the rows
\* max(0, index - 24) .. index, min(index, 24) + 1 of them and never more
\* than 25; at index 0 the call does not fail and the window is row 0 alone.
C9_WindowClampedAtStart ==
    PredictedInside =>
        LET idx == current_idx[1]
            first == IF idx - 24 > 0 THEN idx - 24 ELSE 0
            rows == recent_data[1]
        IN  /\ predictions[1].raised = ""
            /\ Len(rows) = (IF idx < 24 THEN idx ELSE 24) + 1
            /\ Len(rows) <= 25
            /\ \A k \in 1 .. Len(rows) : rows[k] = first + k - 1
            /\ predictions[1].next_6h_load.den = 10 * Len(rows)
            /\ predictions[1].next_6h_generation.den = 10 * Len(rows)
            /\ idx = 0 => rows = <<0>>

\* the call at index 0 has returned with the one-row window
C9_Witness ==
    /\ predictions # None
    /\ current_idx = Some(0)
    /\ recent_data = Some(<<0>>)
    /\ predictions[1].raised = ""

\* the call at an index past 24 has returned with a 25-row window that
\* starts after row 0
C9_WitnessFullWindow ==
    /\ predictions # None
    /\ current_idx = Some(26)
    /\ Len(recent_data[1]) = 25
    /\ recent_data[1][1] = 2

RECURSIVE SumRows(_, _, _, _)
\* the sum of a column over the rows first .. last
SumRows(df, column, first, last) ==
    IF last < first THEN 0
    ELSE df[last][column] + SumRows(df, column, first, last - 1)

\* C10: for an index inside the frame, next_6h_generation is 0.3 times and
\* next_6h_load 1.1 times the window mean, energy_deficit is
\* max(0, next_6h_load - next_6h_generation - 10 * current soc) and so never
\* negative; a window of constant load 1000, generation 0 and soc 50 gives
\* 0, 1100 and 600.
C10_PredictionArithmetic ==
    PredictedInside =>
        LET idx == current_idx[1]
            first == IF idx - 24 > 0 THEN idx - 24 ELSE 0
            len == idx - first + 1
            G == SumRows(energy_df, "generation_watt", first, idx)
            L == SumRows(energy_df, "load_watt", first, idx)
            soc == energy_df[idx].storage_soc_percent
            raw == 11 * L - 3 * G - 100 * len * soc
            p == predictions[1]
            constant == /\ soc = 50000
                        /\ \A i \in first .. idx :
                              /\ energy_df[i].load_watt = 1000000
                              /\ energy_df[i].generation_watt = 0
        IN  /\ p.next_6h_generation = [num |-> 3 * G, den |-> 10 * len]
            /\ p.next_6h_load = [num |-> 11 * L, den |-> 10 * len]
            /\ p.energy_deficit = [num |-> IF raw > 0 THEN raw ELSE 0, den |-> 10 * len]
            /\ p.energy_deficit.num >= 0
            /\ constant =>
                  /\ p.next_6h_generation.num = 0
                  /\ p.next_6h_load.num = 1100000 * p.next_6h_load.den
                  /\ p.energy_deficit.num = 600000 * p.energy_deficit.den

\* the call on a full window of constant load 1000, generation 0, soc 50
\* has returned 0, 1100 and 600
C10_Witness ==
    /\ PredictedInside
    /\ current_idx = Some(26)
    /\ \A i \in 2 .. 26 :
          /\ energy_df[i].load_watt = 1000000
          /\ energy_df[i].generation_watt = 0
          /\ energy_df[i].storage_soc_percent = 50000
    /\ predictions[1].next_6h_generation = [num |-> 0, den |-> 250]
    /\ predictions[1].next_6h_load = [num |-> 275000000, den |-> 250]
    /\ predictions[1].energy_deficit = [num |-> 150000000, den |-> 250]

\* the call where stored energy covers the projected shortfall: deficit 0
C10_WitnessFloor ==
    /\ PredictedInside
    /\ energy_df[current_idx[1]].storage_soc_percent = 90000
    /\ predictions[1].next_6h_generation.num > 0
    /\ predictions[1].energy_deficit.num = 0

\* the texts of a list of recommendations
Texts(list) == [k \in 1 .. Len(list) |-> list[k].text]

DeficitTexts ==
    <<"Consider reducing non-essential loads", "Activate energy-saving mode",
      "Schedule heavy loads during peak generation">>

BatteryTexts == <<"Switch to grid power to preserve battery", "Reduce current load by 20%">>

GridTexts == <<"Solar generation will resume at 6 AM", "Current grid consumption: {:.0f}W">>

\* C11: the recommendations are, in this order, the three deficit strings iff
\* energy_deficit > 500, the two battery strings iff the current soc < 40,
\* the two grid strings iff the current row is in grid mode; each rule on its
\* own, nothing when none applies; grid_mode is the current row's
\* is_grid_mode.
C11_RecommendationsInOrder ==
    PredictedInside =>
        LET p == predictions[1]
            cur == energy_df[current_idx[1]]
            part1 == IF p.energy_deficit.num > 500000 * p.energy_deficit.den
                     THEN DeficitTexts ELSE <<>>
            part2 == IF cur.storage_soc_percent < 40000 THEN BatteryTexts ELSE <<>>
            part3 == IF cur.is_grid_mode THEN GridTexts ELSE <<>>
        IN  /\ Texts(p.recommendations) = part1 \o part2 \o part3
            /\ p.grid_mode = cur.is_grid_mode
            /\ cur.is_grid_mode =>
                  p.recommendations[Len(p.recommendations)].args
                      = <<format_0f(cur.grid_power_watt)>>

\* a call where all three rules apply: seven recommendations
C11_Witness ==
    /\ PredictedInside
    /\ predictions[1].energy_deficit.num > 500000 * predictions[1].energy_deficit.den
    /\ energy_df[current_idx[1]].storage_soc_percent < 40000
    /\ energy_df[current_idx[1]].is_grid_mode
    /\ Len(predictions[1].recommendations) = 7

\* a call where no rule applies: no recommendation
C11_WitnessEmpty ==
    /\ PredictedInside
    /\ predictions[1].recommendations = <<>>

\* a call whose deficit is exactly 500 and so raises no deficit string,
\* while the battery rule alone applies
C11_WitnessOnlyBattery ==
    /\ PredictedInside
    /\ energy_df[current_idx[1]].storage_soc_percent = 30000
    /\ ~energy_df[current_idx[1]].is_grid_mode
    /\ predictions[1].energy_deficit.num <= 500000 * predictions[1].energy_deficit.den
    /\ Texts(predictions[1].recommendations) = BatteryTexts

\* the call has returned or raised for an index outside the frame
PredictedOutside ==
    /\ predictions # None
    /\ current_idx[1] \notin 0 .. nrows(energy_df) - 1

\* C12: a call with an index outside 0..N-1 (negative, or >= N) never
\* returns a prediction: it stops with an error.
C12_OutOfRangeFailsFast ==
    PredictedOutside => predictions[1].raised # ""

\* C13: the series is generated once from the seed and stays the same for the
\* whole session: what a script run reads is a generated series, no step of
\* the session changes a sample of it, the current sample is the row of the
\* series at the current index, and two script runs that compute the same
\* index read the same sample.
C13_SeriesFixed ==
    [][/\ (~cached /\ cached') =>
              \E s \in 0 .. MaxStream :
                  <<energy_df', weather_df'>> = generate_historical_data(s)
       /\ cached => /\ cached'
                    /\ energy_df' = energy_df
                    /\ weather_df' = weather_df
       /\ energy_data' # None =>
              /\ energy_data'[1] = energy_df'[current_idx'[1]]
              /\ weather_data'[1] = weather_df'[current_idx'[1]]
       /\ (energy_data # None /\ energy_data' # None /\ current_idx' = current_idx) =>
              /\ energy_data' = energy_data
              /\ weather_data' = weather_data]_vars

\* the second of two script runs that both compute index 0
C13_Witness ==
    /\ cached
    /\ energy_data # None
    /\ now = start_time + 2 * ShortWait
    /\ current_idx = Some(0)

\* an alert list without its timestamps: severities, messages and the values
\* formatted into them
Shown(list) ==
    [k \in 1 .. Len(list) |->
        [type |-> list[k].type, message |-> list[k].message, args |-> list[k].args]]

\* C14: alert evaluation keeps nothing between script runs: no step changes
\* the session's alerts list or its last_alert_times map, the alerts of a run
\* are those of check_alerts on the sample of that run alone, and two runs on
\* the same sample give the same severities and messages in the same order.
C14_AlertsStateless ==
    [][/\ session_alerts' = session_alerts
       /\ last_alert_times' = last_alert_times
       /\ alerts' # None =>
              Shown(alerts'[1])
                  = Shown(check_alerts(energy_data'[1], weather_data'[1], SessionStart))
       /\ (/\ alerts # None
           /\ alerts' # None
           /\ energy_data' = energy_data
           /\ weather_data' = weather_data) =>
              Shown(alerts'[1]) = Shown(alerts[1])]_vars

\* the second of two script runs on the sample of index 0, which raises an
\* alert in both
C14_Witness ==
    /\ alerts # None
    /\ now = start_time + 2 * ShortWait
    /\ current_idx = Some(0)
    /\ Len(alerts[1]) > 0
    /\ alerts[1][1].type # "success"
    /\ session_alerts = <<>>
    /\ last_alert_times = <<>>

\* a step is a script run that reached the data section of the dashboard
\* (line 805): it has a current index
ReachesData == current_idx' # None

\* what the data section computes from the clock reading of the run
FreshIndex == index_of(now', start_time, nrows(energy_df'))

FreshAlerts == check_alerts(energy_df'[FreshIndex], weather_df'[FreshIndex], now')

FreshPrediction == predict_load_management(energy_df', FreshIndex)

\* C15: every refresh cycle of the dashboard reads the clock again, computes
\* the current index from that reading, and computes both the alert list and
\* the load-deficit prediction for that index.
C15_EveryCycleRecomputes ==
    [][ReachesData =>
           /\ now' > now
           /\ current_idx' = Some(FreshIndex)
           /\ alerts' = Some(FreshAlerts)
           /\ predictions' = Some(FreshPrediction)]_vars

\* C15, amended: every script run that reaches the data section reads the
\* clock again, computes the current index from that reading and the alert
\* list for that index; it computes the prediction for that index exactly
\* when predictive_enabled was set before the run, and none otherwise; and a
\* run that reads the clock always reaches the data section.
C15_CycleRecomputesPredictionIfEnabled ==
    [][/\ ReachesData =>
              /\ now' > now
              /\ current_idx' = Some(FreshIndex)
              /\ alerts' = Some(FreshAlerts)
              /\ predictions' = IF predictive_enabled THEN Some(FreshPrediction) ELSE None
       /\ now' # now => ReachesData]_vars

\* a script run with predictions enabled has computed alerts and a prediction
\* at an index other than that of the first run
C15_Witness ==
    /\ predictive_enabled
    /\ predictions # None
    /\ alerts # None
    /\ current_idx[1] > 1
    /\ predictions[1].raised = ""

\* a script run with predictions disabled has computed alerts and no
\* prediction
C15_WitnessDisabled ==
    /\ ~predictive_enabled
    /\ alerts # None
    /\ predictions = None

\* 1 when the condition holds, 0 otherwise
Indicator(b) == IF b THEN 1 ELSE 0

\* the health score that the three penalties give a published row
PenaltyScore(e) ==
    100000 - 30000 * Indicator(e.storage_soc_percent < 30000)
           - 20000 * Indicator(e.efficiency_percent < 75000)
           - 10000 * Indicator(e.generation_watt = 0)

\* the alerts of row i of the series
RowAlerts(i) == check_alerts(energy_df[i], weather_df[i], now)

\* C16: in every row of the series health_score is 100 less 30 for soc < 30,
\* less 20 for efficiency < 75, less 10 for generation = 0, hence one of 40,
\* 50, ..., 100; check_alerts on a row that raises the health warning also
\* raises the battery critical alert, and a row penalised for low efficiency
\* and grid mode only (score 70) raises no health warning.
C16_HealthScoreAndAlerts ==
    cached =>
        \A i \in Rows :
            LET e == energy_df[i]
                health_warnings == Count(RowAlerts(i), "System health below optimal")
            IN  /\ e.health_score = PenaltyScore(e)
                /\ e.health_score \in {40000, 50000, 60000, 70000, 80000, 90000, 100000}
                /\ health_warnings > 0
                       => Count(RowAlerts(i), "CRITICAL: Low battery storage") > 0
                /\ (/\ e.storage_soc_percent >= 30000
                    /\ e.efficiency_percent < 75000
                    /\ e.generation_watt = 0)
                       => /\ e.health_score = 70000
                          /\ health_warnings = 0

\* a series with a row that raises the health warning, a row of score 70
\* from low efficiency and grid mode, and rows of scores 40 and 100
C16_Witness ==
    /\ cached
    /\ \E i \in Rows : Count(RowAlerts(i), "System health below optimal") = 1
    /\ \E i \in Rows : /\ energy_df[i].storage_soc_percent >= 30000
                       /\ energy_df[i].efficiency_percent < 75000
                       /\ energy_df[i].generation_watt = 0
    /\ \E i \in Rows : energy_df[i].health_score = 40000
    /\ \E i \in Rows : energy_df[i].health_score = 100000

\* C17: whenever the session is authenticated the operator record is set.
\* authenticated becomes true only in a Login step, with a phone number that
\* is not empty and the OTP of generate_otp, and that step sets the operator;
\* the step that ends authentication clears the operator too; and a script
\* run reaches the dashboard's data section only in an authenticated session.
C17_AuthenticatedHasOperator ==
    /\ authenticated => operator # None
    /\ [][/\ authenticated' => operator' # None
          /\ (~authenticated /\ authenticated') =>
                 /\ \E p \in Phones, o \in Otps : Login(p, o)
                 /\ \E p \in Phones \ {""} : operator' = Some(create_operator(p))
          /\ \A p \in Phones, o \in Otps :
                 (Login(p, o) /\ authenticated') => (p # "" /\ o = generate_otp)
          /\ (authenticated /\ ~authenticated') => operator' = None
          /\ ReachesData =>
                 /\ authenticated
                 /\ authenticated'
                 /\ operator # None
                 /\ operator' = operator]_vars

\* a script run of the dashboard, later than the session's first, with the
\* operator of the login
C17_Witness ==
    /\ authenticated
    /\ operator = Some(create_operator("9876543210"))
    /\ alerts # None
    /\ now > start_time + StepSeconds

\* a logged-out session that had been authenticated: the series is cached
\* and the operator is cleared
C17_WitnessLoggedOut ==
    /\ ~authenticated
    /\ operator = None
    /\ cached

====
